---- MODULE Spec2Model ----
(***************************************************************************)
(* onnx2c, src/nodes/batchnormalization.h: the BatchNormalization node.    *)
(*                                                                         *)
(* A node is constructed, reads its attributes (parseAttributes), binds    *)
(* and folds its operands (resolve) and emits C text (print).  Tensors     *)
(* live in the graph's tensor table and are shared by reference, so the    *)
(* table is one variable and a node holds tensor ids.                      *)
(*                                                                         *)
(* float values are modelled on a decimal grid of step 1e-5: the integer u *)
(* stands for u * 1e-5.  Addition is exact on the grid and sqrt is rounded *)
(* to the nearest grid value, as IEEE sqrt is to the nearest float.        *)
(***************************************************************************)
EXTENDS Integers, Sequences, FiniteSets, TLC

VARIABLES
    tensors,    \* the graph's tensor table: tensor id -> Tensor
    nodes,      \* node id -> the BatchNormalization object's fields
    protos,     \* node id -> the attribute records of its onnx::NodeProto
    dst,        \* node id -> the fragments the latest print() streamed
    prints,     \* node id -> number of print() calls made
    resolved,   \* the node ids in the order their resolve() succeeded
    initial,    \* history: the tensor table as the graph builder left it
    splat       \* a direct call of isSplatted: its arguments and its result

vars == <<tensors, nodes, protos, dst, prints, resolved, initial, splat>>

----------------------------------------------------------------------------
(* Bounds of the model. *)

\* longest operand list handed to resolve()
MaxInputs == 6
\* most elements of a per-channel constant buffer
MaxElems == 2
\* highest rank of the input tensor
MaxRank == 4
\* most attribute records of a NodeProto
MaxAttrs == 2
\* most print() calls on one node
MaxPrints == 2

----------------------------------------------------------------------------
(* float values, in units of 1e-5. *)

\* 1.0f, the value a scale tensor is compared with
One == 100000
\* 0.0f, the value a bias tensor is compared with
Zero == 0
\* the constructor's epsilon = 1e-5
EpsilonDefault == 1
\* the constructor's momentum = 0.9
MomentumDefault == 90000

NULL == 0

RECURSIVE ISqrtBetween(_, _, _)
\* the largest r in lo..hi with r*r <= y (lo*lo <= y < (hi+1)*(hi+1))
ISqrtBetween(y, lo, hi) ==
    IF lo >= hi THEN lo
    ELSE LET mid == (lo + hi + 1) \div 2
         IN  IF mid * mid <= y THEN ISqrtBetween(y, mid, hi)
             ELSE ISqrtBetween(y, lo, mid - 1)

\* one step of the long-hand square root: two more decimal digits (00) of
\* the radicand are brought down onto the root r with remainder m
SqrtStep(rm) ==
    LET r == rm[1]
        m == rm[2] * 100
        d == CHOOSE k \in 0..9 :
                 /\ (20 * r + k) * k <= m
                 /\ (k = 9 \/ (20 * r + k + 1) * (k + 1) > m)
    IN  <<10 * r + d, m - (20 * r + d) * d>>

\* sqrt(x) rounded to the nearest grid value: with x = u * 1e-5 the result
\* is round(sqrt(u * 10^5)) units, and u * 10^5 = (10 * u) * 100 * 100
SqrtF(u) ==
    LET y  == 10 * u
        \* 46340 * 46340 is the largest square TLC's integers hold
        s0 == ISqrtBetween(y, 0, IF y < 46340 THEN y ELSE 46340)
        rm == SqrtStep(SqrtStep(<<s0, y - s0 * s0>>))
    IN  IF rm[2] > rm[1] THEN rm[1] + 1 ELSE rm[1]

RECURSIVE StripZeros(_, _)
\* the decimal digits of the fraction f / 10^w without trailing zeros
StripZeros(f, w) ==
    IF f = 0 THEN ""
    ELSE IF f % 10 = 0 THEN StripZeros(f \div 10, w - 1)
    ELSE LET s == ToString(f)
             Pad[k \in 0..5] == IF k = 0 THEN "" ELSE "0" \o Pad[k - 1]
         IN  Pad[w - Len(s)] \o s

\* operator<<(std::ostream&, float): %g with 6 significant digits, for
\* values below 10.0
FmtFloat(u) ==
    IF u = 0 THEN "0"
    ELSE IF u < 10 THEN ToString(u) \o "e-05"
    ELSE LET ip == u \div One
             fr == StripZeros(u % One, 5)
         IN  IF fr = "" THEN ToString(ip) ELSE ToString(ip) \o "." \o fr

----------------------------------------------------------------------------
(* Tensors. *)

\* onnx::TensorProto_DataType values the model draws from
Types == {"FLOAT", "DOUBLE", "INT32"}

\* the buffer values the model draws from
Vals == {Zero, One}

Tensor(ty, const, dim, buf) ==
    [data_type |-> ty, isConst |-> const, data_dim |-> dim, data_buffer |-> buf]

RECURSIVE Product(_)
Product(dim) == IF dim = <<>> THEN 1 ELSE Head(dim) * Product(Tail(dim))

\* Tensor::data_num_elem(): the product of the extents
data_num_elem(t) == Product(t.data_dim)

\* Node::typeConstraint_plainFloatingPoints
typeConstraint_plainFloatingPoints(t) == t.data_type \in {"FLOAT", "DOUBLE"}

\* Tensor::data_type_str(): the C name of the element type
data_type_str(t) ==
    CASE t.data_type = "FLOAT"  -> "float"
      [] t.data_type = "DOUBLE" -> "double"
      [] OTHER                  -> "int32_t"

----------------------------------------------------------------------------
(* The node. *)

NodeFields ==
    [epsilon |-> EpsilonDefault, momentum |-> MomentumDefault,
     input |-> NULL, scale |-> NULL, bias |-> NULL, mean |-> NULL,
     var |-> NULL, output |-> NULL, sqrt_var_offline |-> FALSE]

\* BatchNormalization(): the fields the constructor sets, the Node base's
\* inputs and registered parameters, and where the node is in its life
\* (constructed, parsed, resolved, failed) with the message of its ERROR
NewNode(ins) ==
    [f \in DOMAIN NodeFields \cup {"inputs", "input_params", "output_params", "pc", "err"} |->
        CASE f = "inputs"        -> ins
          [] f = "input_params"  -> <<>>
          [] f = "output_params" -> <<>>
          [] f = "pc"            -> "constructed"
          [] f = "err"           -> ""
          [] OTHER               -> NodeFields[f]]

\* ERROR(msg): the message is reported and the handler is left at once
Fail(nd, msg) == [nd EXCEPT !.pc = "failed", !.err = msg]

----------------------------------------------------------------------------
(* parseAttributes *)

Attr(name, type, has_f, f, i) ==
    [name |-> name, type |-> type, has_f |-> has_f, f |-> f, i |-> i]

\* parse_attribute_int: the record's integer value
parse_attribute_int(a) == a.i

parseAttribute_epsilon(nd, a) ==
    IF a.type # "FLOAT" THEN Fail(nd, "Bad attribute " \o a.name)
    ELSE IF a.has_f = FALSE THEN Fail(nd, "Bad attribute " \o a.name)
    ELSE [nd EXCEPT !.epsilon = a.f]

\* a faulty variant of parseAttribute_momentum: has_f() is not looked at
parseAttribute_momentum_NoHasF(nd, a) ==
    IF a.type # "FLOAT" THEN Fail(nd, "Bad attribute " \o a.name)
    ELSE [nd EXCEPT !.momentum = a.f]

parseAttribute_momentum(nd, a) ==
    IF a.type # "FLOAT" THEN Fail(nd, "Bad attribute " \o a.name)
    ELSE IF a.has_f = FALSE THEN Fail(nd, "Bad attribute " \o a.name)
    ELSE [nd EXCEPT !.momentum = a.f]

\* the body of parseAttributes' loop, for one record
parseAttribute(nd, a) ==
    IF a.name = "epsilon" THEN parseAttribute_epsilon(nd, a)
    ELSE IF a.name = "momentum" THEN parseAttribute_momentum(nd, a)
    ELSE IF a.name = "spatial" THEN
        IF parse_attribute_int(a) # 1
        THEN Fail(nd, "non-default value for 'spatial' attribute not implemented")
        ELSE nd
    ELSE Fail(nd, "Unknown attribute " \o a.name)

RECURSIVE parseAttributesFrom(_, _)
\* the loop over node.attribute(), left at the first ERROR
parseAttributesFrom(nd, attrs) ==
    IF attrs = <<>> \/ nd.pc = "failed" THEN nd
    ELSE parseAttributesFrom(parseAttribute(nd, Head(attrs)), Tail(attrs))

parseAttributes(nd, attrs) ==
    LET r == parseAttributesFrom(nd, attrs)
    IN  IF r.pc = "failed" THEN r ELSE [r EXCEPT !.pc = "parsed"]

ParseAttributes(n) ==
    /\ nodes[n].pc = "constructed"
    /\ nodes' = [nodes EXCEPT ![n] = parseAttributes(nodes[n], protos[n])]
    /\ UNCHANGED <<tensors, protos, dst, prints, resolved, initial, splat>>

----------------------------------------------------------------------------
(* isSplatted *)

\* a faulty variant of isSplatted: constness is looked at before the element type
isSplatted_ConstFirst(t, value) ==
    IF t.isConst = FALSE THEN [err |-> "", ret |-> FALSE]
    ELSE IF t.data_type # "FLOAT" THEN [err |-> "Unimplemented", ret |-> FALSE]
    ELSE [err |-> "",
          ret |-> \A i \in 1..Product(t.data_dim) : t.data_buffer[i] = value]

\* the outcome of isSplatted(t, value): the ERROR it raised, or its result
isSplatted(t, value) ==
    IF t.data_type # "FLOAT" THEN [err |-> "Unimplemented", ret |-> FALSE]
    ELSE IF t.isConst = FALSE THEN [err |-> "", ret |-> FALSE]
    ELSE [err |-> "",
          ret |-> \A i \in 1..data_num_elem(t) : t.data_buffer[i] = value]

\* a direct call isSplatted(tensors[splat.t], splat.value)
CallIsSplatted ==
    /\ splat.pc = "call"
    /\ LET r == isSplatted(tensors[splat.t], splat.value)
       IN  splat' = [splat EXCEPT !.pc = IF r.err # "" THEN "failed" ELSE "returned",
                                  !.err = r.err, !.ret = r.ret]
    /\ UNCHANGED <<tensors, nodes, protos, dst, prints, resolved, initial>>

----------------------------------------------------------------------------
(* resolve *)

\* Node::register_input / register_output: the tensor is recorded, with the
\* name it has in the emitted code, among the node's parameters
register(params, t, name) == Append(params, [tensor |-> t, name |-> name])

\* a faulty variant of ArityOk: a longer operand list is let through
ArityOk_AtLeastFive(ins) == Len(ins) >= 5

\* the check on inputs.size()
ArityOk(ins) == Len(ins) = 5

\* the operands are bound by position and registered
bind(nd) ==
    [nd EXCEPT !.input = nd.inputs[1], !.scale = nd.inputs[2],
               !.bias = nd.inputs[3], !.mean = nd.inputs[4],
               !.var = nd.inputs[5],
               !.input_params =
                   register(register(register(register(register(@,
                       nd.inputs[1], "X"), nd.inputs[2], "scale"),
                       nd.inputs[3], "bias"), nd.inputs[4], "mean"),
                       nd.inputs[5], "var")]

\* a faulty variant of CheckedOperands: the check of the bias is missing
CheckedOperands_NoBias == {"input", "scale", "mean", "var"}

\* the operands whose element type is checked
CheckedOperands == {"input", "scale", "bias", "mean", "var"}

\* the five typeConstraint_plainFloatingPoints checks
TypesOk(nd, tt) ==
    \A f \in CheckedOperands : typeConstraint_plainFloatingPoints(tt[nd[f]])

\* if( isSplatted(scale, 1.0f) ) scale = NULL;
elideScale(nd, tt) ==
    LET r == isSplatted(tt[nd.scale], One)
    IN  IF r.err # "" THEN Fail(nd, r.err)
        ELSE IF r.ret THEN [nd EXCEPT !.scale = NULL] ELSE nd

\* a faulty variant of elideBias: the bias is compared with 1.0f, as the scale is
elideBias_AgainstOne(nd, tt) ==
    LET r == isSplatted(tt[nd.bias], One)
    IN  IF r.err # "" THEN Fail(nd, r.err)
        ELSE IF r.ret THEN [nd EXCEPT !.bias = NULL] ELSE nd

\* if( isSplatted(bias, 0.0f) ) bias = NULL;
elideBias(nd, tt) ==
    LET r == isSplatted(tt[nd.bias], Zero)
    IN  IF r.err # "" THEN Fail(nd, r.err)
        ELSE IF r.ret THEN [nd EXCEPT !.bias = NULL] ELSE nd

\* a faulty variant of sqrtVar: epsilon is not added
sqrtVar_NoEpsilon(buf, n, epsilon) == [i \in 1..n |-> SqrtF(buf[i])]

\* v[i] = sqrt(v[i] + epsilon) on a buffer of floats
sqrtVar(buf, n, epsilon) == [i \in 1..n |-> SqrtF(buf[i] + epsilon)]

\* calculateSqrtVarOffline: the buffers it can leave in the variance tensor.
\* The buffer is read and written through a float*, whatever its element
\* type.  Over a buffer of floats that is sqrtVar.  Over a buffer of n
\* doubles the n floats lie on the first (n+1) div 2 doubles, which are left
\* holding any bits, and the doubles behind them are not written at all.
calculateSqrtVarOffline(nd, tt) ==
    LET v == tt[nd.var]
        n == data_num_elem(v)
    IN  IF v.data_type = "FLOAT"
        THEN {sqrtVar(v.data_buffer, n, nd.epsilon)}
        ELSE {b \in [1..n -> Vals] :
                 \A i \in 1..n : i > (n + 1) \div 2 => b[i] = v.data_buffer[i]}

\* if( var->isConst ) { calculateSqrtVarOffline(); sqrt_var_offline = true; }
foldVariance(nd, tt) ==
    IF tt[nd.var].isConst
    THEN {[nd |-> [nd EXCEPT !.sqrt_var_offline = TRUE],
           tt |-> [tt EXCEPT ![nd.var].data_buffer = b]] :
              b \in calculateSqrtVarOffline(nd, tt)}
    ELSE {[nd |-> nd, tt |-> tt]}

\* a faulty variant of allocateOutput: the shape is not copied to the new tensor
allocateOutput_NoShape(nd, tt) ==
    LET rv == Tensor(tt[nd.input].data_type, FALSE, <<>>, <<>>)
        id == Len(tt) + 1
    IN  [nd |-> [nd EXCEPT !.output = id,
                           !.output_params = register(@, id, "output"),
                           !.pc = "resolved"],
         tt |-> Append(tt, rv)]

\* the new output tensor: its shape and type are the input's
allocateOutput(nd, tt) ==
    LET rv == Tensor(tt[nd.input].data_type, FALSE, tt[nd.input].data_dim, <<>>)
        id == Len(tt) + 1
    IN  [nd |-> [nd EXCEPT !.output = id,
                           !.output_params = register(@, id, "output"),
                           !.pc = "resolved"],
         tt |-> Append(tt, rv)]

\* a faulty variant of resolve: the variance is folded before the splat checks
resolve_FoldFirst(nd, tt) ==
    IF ~ArityOk(nd.inputs)
    THEN {[nd |-> Fail(nd, "wrong number of inputs to BatchNormalization"),
           tt |-> tt]}
    ELSE LET b == bind(nd) IN
    IF ~TypesOk(b, tt)
    THEN {[nd |-> Fail(b, "Incorrect input for node"), tt |-> tt]}
    ELSE {IF elideScale(f.nd, tt).pc = "failed"
          THEN [nd |-> elideScale(f.nd, tt), tt |-> f.tt]
          ELSE IF elideBias(elideScale(f.nd, tt), tt).pc = "failed"
          THEN [nd |-> elideBias(elideScale(f.nd, tt), tt), tt |-> f.tt]
          ELSE allocateOutput(elideBias(elideScale(f.nd, tt), tt), f.tt) :
             f \in foldVariance(b, tt)}

\* resolve(): the node and tensor table it can leave
resolve(nd, tt) ==
    IF ~ArityOk(nd.inputs)
    THEN {[nd |-> Fail(nd, "wrong number of inputs to BatchNormalization"),
           tt |-> tt]}
    ELSE LET b == bind(nd) IN
    IF ~TypesOk(b, tt)
    THEN {[nd |-> Fail(b, "Incorrect input for node"), tt |-> tt]}
    ELSE LET s == elideScale(b, tt) IN
    IF s.pc = "failed" THEN {[nd |-> s, tt |-> tt]}
    ELSE LET sb == elideBias(s, tt) IN
    IF sb.pc = "failed" THEN {[nd |-> sb, tt |-> tt]}
    ELSE {allocateOutput(f.nd, f.tt) : f \in foldVariance(sb, tt)}

Resolve(n) ==
    /\ nodes[n].pc = "parsed"
    /\ \E o \in resolve(nodes[n], tensors) :
          /\ nodes' = [nodes EXCEPT ![n] = o.nd]
          /\ tensors' = o.tt
          /\ resolved' = IF o.nd.pc = "resolved" THEN Append(resolved, n)
                         ELSE resolved
    /\ UNCHANGED <<protos, dst, prints, initial, splat>>

----------------------------------------------------------------------------
(* print *)

endl == "\n"

RECURSIVE idxsFrom(_, _)
\* idxs += "[i" + std::to_string(i) + "]" for i = from .. rank-1
idxsFrom(from, rank) ==
    IF from >= rank THEN ""
    ELSE "[i" \o ToString(from) \o "]" \o idxsFrom(from + 1, rank)

\* the indexing string for picking out an element in input/output
idxs(rank) == "[b][c]" \o idxsFrom(2, rank)

RECURSIVE dataLoops_OffByOne(_, _)
\* a faulty variant of dataLoops: the loop over axis i is bounded by the extent of
\* axis i-1
dataLoops_OffByOne(from, dim) ==
    IF from >= Len(dim) THEN <<>>
    ELSE LET idx == "i" \o ToString(from)
         IN  <<"\t", "for( uint32_t ", idx, "=0; ",
               idx, "<", ToString(dim[from]), "; ",
               idx, "++ ) {", endl>>
             \o dataLoops_OffByOne(from + 1, dim)

RECURSIVE dataLoops(_, _)
\* the loops over the data dimensions i = from .. rank-1; data_dim[i] of the
\* code is dim[i + 1] here
dataLoops(from, dim) ==
    IF from >= Len(dim) THEN <<>>
    ELSE LET idx == "i" \o ToString(from)
         IN  <<"\t", "for( uint32_t ", idx, "=0; ",
               idx, "<", ToString(dim[from + 1]), "; ",
               idx, "++ ) {", endl>>
             \o dataLoops(from + 1, dim)

RECURSIVE closeLoops(_, _)
closeLoops(from, rank) ==
    IF from >= rank THEN <<>>
    ELSE <<"\t}", endl>> \o closeLoops(from + 1, rank)

\* print(dst): the fragments streamed to dst, in order
print(nd, tt) ==
    LET dim        == tt[nd.input].data_dim
        batch_size == dim[1]
        num_chan   == dim[2]
        type       == data_type_str(tt[nd.input])
    IN  <<"\t/* BatchNormalization", endl,
          "\t * epsilon = ", FmtFloat(nd.epsilon), endl,
          "\t * momentum = ", FmtFloat(nd.momentum), endl,
          "\t */", endl, endl>>
        \o (IF nd.sqrt_var_offline = FALSE
            THEN <<"\t", "float epsilon = ", FmtFloat(nd.epsilon), ";", endl>>
            ELSE <<>>)
        \o <<"\t", "for( int32_t b=0; b<", ToString(batch_size), "; b++ ) {", endl,
             "\t", "for( int32_t c=0; c<", ToString(num_chan), "; c++ ) {", endl>>
        \o dataLoops(2, dim)
        \o <<"\t\t", type, " tmp_X = ( X", idxs(Len(dim)), " - mean[c] ) / ">>
        \o (IF nd.sqrt_var_offline
            THEN <<"( var[c] );", endl>>
            ELSE <<"( sqrt( var[c] + epsilon));", endl>>)
        \o <<"\t\t", "output", idxs(Len(dim)), " = tmp_X ">>
        \o (IF nd.scale # NULL THEN <<"* scale[c]">> ELSE <<>>)
        \o (IF nd.bias # NULL THEN <<" + bias[c]">> ELSE <<>>)
        \o <<";", endl>>
        \o closeLoops(2, Len(dim))
        \o <<"\t", "}", endl, "\t", "}", endl>>

\* print() on a resolved node, each call on a stream of its own.  The graph
\* prints only nodes it has resolved, and an input has rank 2 at least:
\* print() reads input->data_dim[0] and [1] unguarded.
DoPrint(n) ==
    /\ nodes[n].pc = "resolved"
    /\ prints[n] < MaxPrints
    /\ dst' = [dst EXCEPT ![n] = print(nodes[n], tensors)]
    /\ prints' = [prints EXCEPT ![n] = @ + 1]
    /\ UNCHANGED <<tensors, nodes, protos, resolved, initial, splat>>

----------------------------------------------------------------------------
(* The inputs the model draws from. *)

NodeIds == {1, 2}

\* the shapes of an input tensor: rank 2 .. MaxRank, extents 1 or 2
Shapes == UNION {[1..r -> {1, 2}] : r \in 2..MaxRank}

\* a per-channel tensor: not constant (and without a buffer), or constant
\* with a buffer of n values
ChannelTensors(types, n) ==
    {Tensor(ty, FALSE, <<n>>, <<>>) : ty \in types}
    \cup {Tensor(ty, TRUE, <<n>>, b) : ty \in types, b \in [1..n -> Vals]}

\* a per-channel tensor that is not constant, or constant and all `value`
SplatOrNot(value) ==
    {Tensor("FLOAT", FALSE, <<MaxElems>>, <<>>),
     Tensor("FLOAT", TRUE, <<MaxElems>>, [i \in 1..MaxElems |-> value])}

\* a tensor table: the five operands in their positions, then the tensors a
\* longer operand list would name
Table(x, scale, bias, mean, var) ==
    [i \in 1..MaxInputs |->
        CASE i = 1 -> x
          [] i = 2 -> scale
          [] i = 3 -> bias
          [] i = 4 -> mean
          [] i = 5 -> var
          [] OTHER -> Tensor("FLOAT", FALSE, <<1, 2>>, <<>>)]

\* binding: every operand count and every assignment of element types, each
\* of scale, bias and variance constant or not
BindingTables ==
    {Table(Tensor(ty[1], FALSE, <<1, 2>>, <<>>),
           Tensor(ty[2], c[1], <<MaxElems>>, IF c[1] THEN [i \in 1..MaxElems |-> One] ELSE <<>>),
           Tensor(ty[3], c[2], <<MaxElems>>, IF c[2] THEN [i \in 1..MaxElems |-> Zero] ELSE <<>>),
           Tensor(ty[4], FALSE, <<MaxElems>>, <<>>),
           Tensor(ty[5], c[3], <<MaxElems>>, IF c[3] THEN [i \in 1..MaxElems |-> One] ELSE <<>>)) :
        ty \in [1..5 -> Types], c \in [1..3 -> BOOLEAN]}

\* folding: every plain floating-point type and every content of scale, bias
\* and variance
FoldingTables ==
    {Table(Tensor(tx, FALSE, <<1, 2>>, <<>>), s, b,
           Tensor(tm, FALSE, <<MaxElems>>, <<>>), v) :
        tx \in {"FLOAT", "DOUBLE"}, tm \in {"FLOAT", "DOUBLE"},
        s \in ChannelTensors({"FLOAT", "DOUBLE"}, MaxElems),
        b \in ChannelTensors({"FLOAT", "DOUBLE"}, MaxElems),
        v \in ChannelTensors({"FLOAT", "DOUBLE"}, MaxElems)}

\* emission: every shape, scale, bias and variance elided/folded or not
EmissionTables ==
    {Table(Tensor("FLOAT", FALSE, sh, <<>>), s, b,
           Tensor("FLOAT", FALSE, <<MaxElems>>, <<>>), v) :
        sh \in Shapes, s \in SplatOrNot(One), b \in SplatOrNot(Zero),
        v \in SplatOrNot(One)}

\* the operand list of length k: the first k tensors of the table
Operands(k) == [i \in 1..k |-> i]

\* a node's attributes: none, or an epsilon of 0.001
FewProtos == {<<>>, <<Attr("epsilon", "FLOAT", TRUE, 100, 0)>>}

\* the attribute records: epsilon and momentum of either declared type, with
\* or without a value; spatial 0, 1 or 2; and a name the node does not know
AttrRecords ==
    {Attr(nm, ty, FALSE, 0, 0) : nm \in {"epsilon", "momentum"}, ty \in {"FLOAT", "INT"}}
    \cup {Attr(nm, ty, TRUE, f, 0) :
              nm \in {"epsilon", "momentum"}, ty \in {"FLOAT", "INT"}, f \in {100, 50000}}
    \cup {Attr("spatial", "INT", FALSE, 0, i) : i \in {0, 1, 2}}
    \cup {Attr("training_mode", "INT", FALSE, 0, 1)}

AttrSeqs == UNION {[1..k -> AttrRecords] : k \in 0..MaxAttrs}

NoSplat == [t |-> NULL, value |-> Zero, pc |-> "idle", err |-> "", ret |-> FALSE]

----------------------------------------------------------------------------
(* The life of one node: parseAttributes, resolve, print. *)

Init ==
    /\ \E k \in 0..MaxInputs, p \in FewProtos :
          /\ nodes = [n \in {1} |-> NewNode(Operands(k))]
          /\ protos = [n \in {1} |-> p]
          /\ \/ tensors \in BindingTables
             \/ k = 5 /\ tensors \in FoldingTables
             \/ k = 5 /\ tensors \in EmissionTables
    /\ initial = tensors
    /\ dst = [n \in {1} |-> <<>>]
    /\ prints = [n \in {1} |-> 0]
    /\ resolved = <<>>
    /\ splat = NoSplat

Next ==
    \/ \E n \in DOMAIN nodes : ParseAttributes(n)
    \/ \E n \in DOMAIN nodes : Resolve(n)
    \/ \E n \in DOMAIN nodes : DoPrint(n)

Spec == Init /\ [][Next]_vars

----------------------------------------------------------------------------
(* parseAttributes alone, over every attribute list. *)

InitAttr ==
    /\ nodes = [n \in {1} |-> NewNode(<<>>)]
    /\ protos \in [{1} -> AttrSeqs]
    /\ tensors = <<>>
    /\ initial = tensors
    /\ dst = [n \in {1} |-> <<>>]
    /\ prints = [n \in {1} |-> 0]
    /\ resolved = <<>>
    /\ splat = NoSplat

NextAttr == \E n \in DOMAIN nodes : ParseAttributes(n)

SpecAttr == InitAttr /\ [][NextAttr]_vars

----------------------------------------------------------------------------
(* isSplatted alone, over every tensor and both values it is called with. *)

\* tensors of every type, constant or not, with 0 .. MaxElems elements
SplatTensors ==
    UNION {{Tensor(ty, c, <<n>>, b) : ty \in Types, c \in BOOLEAN, b \in [1..n -> Vals]} :
              n \in 0..MaxElems}

InitSplat ==
    /\ tensors \in {<<t>> : t \in SplatTensors}
    /\ splat \in {[NoSplat EXCEPT !.t = 1, !.value = v, !.pc = "call"] : v \in Vals}
    /\ nodes = <<>>
    /\ protos = <<>>
    /\ initial = tensors
    /\ dst = <<>>
    /\ prints = <<>>
    /\ resolved = <<>>

NextSplat == CallIsSplatted

SpecSplat == InitSplat /\ [][NextSplat]_vars

----------------------------------------------------------------------------
(* Two nodes that consume the same five tensors. *)

InitAlias ==
    /\ tensors \in
          {Table(Tensor("FLOAT", FALSE, <<1, 2>>, <<>>),
                 Tensor("FLOAT", FALSE, <<MaxElems>>, <<>>),
                 Tensor("FLOAT", FALSE, <<MaxElems>>, <<>>),
                 Tensor("FLOAT", FALSE, <<MaxElems>>, <<>>), v) :
              v \in ChannelTensors({"FLOAT"}, MaxElems)}
    /\ nodes = [n \in NodeIds |-> NewNode(Operands(5))]
    /\ protos \in [NodeIds -> FewProtos]
    /\ initial = tensors
    /\ dst = [n \in NodeIds |-> <<>>]
    /\ prints = [n \in NodeIds |-> 0]
    /\ resolved = <<>>
    /\ splat = NoSplat

SpecAlias == InitAlias /\ [][Next]_vars

----------------------------------------------------------------------------
(* What the properties below speak of. *)

ArityMsg == "wrong number of inputs to BatchNormalization"
TypeMsg == "Incorrect input for node"
UnimplementedMsg == "Unimplemented"

\* resolve() has run on the node and raised an ERROR
ResolveFailed(nd) ==
    nd.pc = "failed" /\ nd.err \in {ArityMsg, TypeMsg, UnimplementedMsg}

\* resolve() has run on the node
ResolveRan(nd) == nd.pc = "resolved" \/ ResolveFailed(nd)

Has(seq, s) == \E p \in DOMAIN seq : seq[p] = s

\* every element of the buffer equals value
AllEqual(t, value) == \A i \in DOMAIN t.data_buffer : t.data_buffer[i] = value

PlainFloat(t) == t.data_type \in {"FLOAT", "DOUBLE"}

----------------------------------------------------------------------------
\* C1: resolve() raises the arity error for every operand list whose length
\* is not 5 and for no list of length 5; the check comes first, so after an
\* arity error no operand is bound and nothing is registered.
C1_ArityError ==
    \A n \in DOMAIN nodes :
        LET nd == nodes[n]
        IN  ResolveRan(nd) =>
              /\ (nd.err = ArityMsg) <=> (Len(nd.inputs) # 5)
              /\ Len(nd.inputs) # 5 =>
                    /\ nd.pc = "failed"
                    /\ \A f \in {"input", "scale", "bias", "mean", "var", "output"} :
                           nd[f] = NULL
                    /\ nd.input_params = <<>>
                    /\ nd.output_params = <<>>
              /\ Len(nd.inputs) = 5 => Len(nd.input_params) = 5

\* resolve() has rejected a list of six operands
C1_Witness ==
    \E n \in DOMAIN nodes :
        /\ Len(nodes[n].inputs) = 6
        /\ nodes[n].err = ArityMsg
        /\ nodes[n].input = NULL

----------------------------------------------------------------------------
\* C2: as claimed, isSplatted(t, v) returns false for every tensor that is
\* not constant, raises Unimplemented for a constant tensor that is not
\* FLOAT, and for a constant FLOAT tensor returns whether every element
\* equals v.
C2_AsClaimed ==
    splat.pc # "call" =>
        LET t == tensors[splat.t]
        IN  /\ ~t.isConst => splat.pc = "returned" /\ splat.ret = FALSE
            /\ t.isConst /\ t.data_type # "FLOAT" =>
                  splat.pc = "failed" /\ splat.err = UnimplementedMsg
            /\ t.isConst /\ t.data_type = "FLOAT" =>
                  splat.pc = "returned" /\ (splat.ret <=> AllEqual(t, splat.value))

\* C2, amended: isSplatted(t, v) raises Unimplemented for every tensor that
\* is not FLOAT, constant or not; for a FLOAT tensor it returns true iff the
\* tensor is constant and every element equals v.
C2_Splatted ==
    splat.pc # "call" =>
        LET t == tensors[splat.t]
        IN  /\ t.data_type # "FLOAT" =>
                  splat.pc = "failed" /\ splat.err = UnimplementedMsg
            /\ t.data_type = "FLOAT" =>
                  /\ splat.pc = "returned"
                  /\ splat.ret <=> (t.isConst /\ AllEqual(t, splat.value))

\* isSplatted has raised Unimplemented for a tensor that is not constant
C2_Witness ==
    /\ splat.pc = "failed"
    /\ tensors[splat.t].isConst = FALSE
    /\ tensors[splat.t].data_type = "DOUBLE"

----------------------------------------------------------------------------
\* C4: after resolve() has succeeded, scale is NULL iff the scale tensor is
\* constant with every element 1.0, and bias is NULL iff the bias tensor is
\* constant with every element 0.0; the emitted assignment holds
\* "* scale[c]" iff scale is not NULL and " + bias[c]" iff bias is not NULL.
C4_Elision ==
    \A n \in DOMAIN nodes :
        LET nd == nodes[n]
            s  == initial[nd.inputs[2]]
            b  == initial[nd.inputs[3]]
        IN  nd.pc = "resolved" =>
              /\ nd.scale = (IF s.isConst /\ AllEqual(s, One) THEN NULL ELSE nd.inputs[2])
              /\ nd.bias = (IF b.isConst /\ AllEqual(b, Zero) THEN NULL ELSE nd.inputs[3])
              /\ prints[n] > 0 =>
                    /\ Has(dst[n], "* scale[c]") <=> nd.scale # NULL
                    /\ Has(dst[n], " + bias[c]") <=> nd.bias # NULL

\* a node whose scale was elided and whose constant bias was not has printed
C4_Witness ==
    \E n \in DOMAIN nodes :
        /\ nodes[n].pc = "resolved"
        /\ prints[n] > 0
        /\ nodes[n].scale = NULL
        /\ nodes[n].bias # NULL
        /\ initial[nodes[n].inputs[3]].isConst
        /\ ~Has(dst[n], "* scale[c]")

----------------------------------------------------------------------------
\* C6: with five operands, resolve() raises the type error whenever one of
\* them, in any position, has an element type that is not plain floating
\* point, and only then; the type error is raised only after the arity
\* check has passed and the operands are bound.
C6_TypeError ==
    \A n \in DOMAIN nodes :
        LET nd == nodes[n]
        IN  ResolveRan(nd) =>
              /\ Len(nd.inputs) = 5 =>
                    ((nd.err = TypeMsg) <=>
                        \E i \in 1..5 : ~PlainFloat(initial[nd.inputs[i]]))
              /\ nd.err = TypeMsg =>
                    /\ Len(nd.inputs) = 5
                    /\ nd.pc = "failed"
                    /\ Len(nd.input_params) = 5

\* the type error was raised for an INT32 bias among plain floating-point
\* operands, a DOUBLE one among them
C6_Witness ==
    \E n \in DOMAIN nodes :
        /\ nodes[n].err = TypeMsg
        /\ initial[3].data_type = "INT32"
        /\ \A i \in {1, 2, 4, 5} : PlainFloat(initial[i])
        /\ initial[2].data_type = "DOUBLE"

----------------------------------------------------------------------------
\* C3: after resolve() has succeeded: if the variance tensor is constant,
\* every element of its buffer is sqrt(original + epsilon), sqrt_var_offline
\* is true, and the emitted code declares no epsilon and divides by var[c]
\* without sqrt; if it is not constant, the tensor is untouched,
\* sqrt_var_offline is false, and the emitted code declares epsilon and
\* divides by sqrt(var[c] + epsilon).
C3_Folding ==
    \A n \in DOMAIN nodes :
        LET nd == nodes[n]
            v0 == initial[nd.inputs[5]]
            v  == tensors[nd.inputs[5]]
        IN  nd.pc = "resolved" =>
              /\ v0.isConst =>
                    /\ \A i \in DOMAIN v0.data_buffer :
                           v.data_buffer[i] = SqrtF(v0.data_buffer[i] + nd.epsilon)
                    /\ nd.sqrt_var_offline
                    /\ prints[n] > 0 =>
                          /\ ~Has(dst[n], "float epsilon = ")
                          /\ Has(dst[n], "( var[c] );")
                          /\ ~Has(dst[n], "( sqrt( var[c] + epsilon));")
              /\ ~v0.isConst =>
                    /\ v = v0
                    /\ ~nd.sqrt_var_offline
                    /\ prints[n] > 0 =>
                          /\ Has(dst[n], "float epsilon = ")
                          /\ Has(dst[n], "( sqrt( var[c] + epsilon));")
                          /\ ~Has(dst[n], "( var[c] );")

----------------------------------------------------------------------------
\* C5, as claimed: with five operands, each of a plain floating-point type,
\* resolve() succeeds and registers exactly one new output tensor with the
\* input's shape and element type.
C5_AsClaimed ==
    \A n \in DOMAIN nodes :
        LET nd == nodes[n]
        IN  /\ ResolveRan(nd)
            /\ Len(nd.inputs) = 5
            /\ \A i \in 1..5 : PlainFloat(initial[nd.inputs[i]])
            => nd.pc = "resolved"

\* C5, amended: with five operands, each of a plain floating-point type and
\* scale and bias FLOAT, resolve() succeeds and registers exactly one new
\* output tensor, whose shape equals the input's element for element and
\* whose element type is the input's; with a scale or bias of another plain
\* floating-point type it fails with Unimplemented.
C5_Output ==
    \A n \in DOMAIN nodes :
        LET nd == nodes[n]
        IN  /\ ResolveRan(nd)
            /\ Len(nd.inputs) = 5
            /\ \A i \in 1..5 : PlainFloat(initial[nd.inputs[i]])
            => IF \E i \in {2, 3} : initial[nd.inputs[i]].data_type # "FLOAT"
               THEN nd.pc = "failed" /\ nd.err = UnimplementedMsg
               ELSE
               /\ nd.pc = "resolved"
               /\ nd.output_params = <<[tensor |-> nd.output, name |-> "output"]>>
               /\ nd.output \notin DOMAIN initial
               /\ DOMAIN tensors = DOMAIN initial \cup {nd.output}
               /\ Len(tensors[nd.output].data_dim) = Len(initial[nd.inputs[1]].data_dim)
               /\ \A i \in DOMAIN initial[nd.inputs[1]].data_dim :
                      tensors[nd.output].data_dim[i] = initial[nd.inputs[1]].data_dim[i]
               /\ tensors[nd.output].data_type = initial[nd.inputs[1]].data_type

\* resolve() has given a DOUBLE input of shape [1,2] its output
C5_Witness ==
    \E n \in DOMAIN nodes :
        /\ nodes[n].pc = "resolved"
        /\ initial[1].data_type = "DOUBLE"
        /\ initial[5].data_type = "DOUBLE"
        /\ tensors[nodes[n].output].data_dim = <<1, 2>>
        /\ tensors[nodes[n].output].data_type = "DOUBLE"

----------------------------------------------------------------------------
\* C8: whenever resolve() fails (arity, type or Unimplemented), no output
\* tensor has been created or registered, output is NULL, no tensor has
\* been changed and sqrt_var_offline is false.
C8_NoPartialResult ==
    \A n \in DOMAIN nodes :
        LET nd == nodes[n]
        IN  ResolveFailed(nd) =>
              /\ nd.output = NULL
              /\ nd.output_params = <<>>
              /\ nd.sqrt_var_offline = FALSE
              /\ tensors = initial
              /\ \A k \in DOMAIN resolved : resolved[k] # n

\* resolve() has failed in the splat check of the bias, after eliding the
\* scale and with a constant variance at hand
C8_Witness ==
    \E n \in DOMAIN nodes :
        /\ nodes[n].err = UnimplementedMsg
        /\ nodes[n].scale = NULL
        /\ nodes[n].input # NULL
        /\ initial[5].isConst
        /\ initial[5].data_type = "FLOAT"

----------------------------------------------------------------------------
\* what the first record that parseAttributes rejects is rejected with
RejectedWith(a) ==
    IF a.name \notin {"epsilon", "momentum", "spatial"}
    THEN "Unknown attribute " \o a.name
    ELSE IF a.name = "spatial"
    THEN (IF a.i # 1
          THEN "non-default value for 'spatial' attribute not implemented"
          ELSE "")
    ELSE (IF a.type # "FLOAT" \/ ~a.has_f THEN "Bad attribute " \o a.name ELSE "")

\* the value of the last record named name, or dflt when there is none
LastValue(attrs, name, dflt) ==
    LET at == {k \in DOMAIN attrs : attrs[k].name = name}
    IN  IF at = {} THEN dflt
        ELSE attrs[CHOOSE k \in at : \A j \in at : j <= k].f

\* C7: parseAttributes fails at the first record that is named other than
\* epsilon/momentum/spatial (unknown attribute), is an epsilon or momentum
\* that is not declared float or carries no value (bad attribute), or is a
\* spatial other than 1 (not implemented), with that record's error; with no
\* such record it succeeds and epsilon and momentum hold the last value
\* supplied, 1e-5 and 0.9 when none is; nothing but epsilon and momentum is
\* changed.
C7_Attributes ==
    \A n \in DOMAIN nodes :
        LET nd    == nodes[n]
            attrs == protos[n]
            bad   == {k \in DOMAIN attrs : RejectedWith(attrs[k]) # ""}
        IN  nd.pc # "constructed" =>
              /\ bad # {} =>
                    /\ nd.pc = "failed"
                    /\ nd.err = RejectedWith(attrs[CHOOSE k \in bad : \A j \in bad : k <= j])
              /\ bad = {} =>
                    /\ nd.pc = "parsed"
                    /\ nd.err = ""
                    /\ nd.epsilon = LastValue(attrs, "epsilon", EpsilonDefault)
                    /\ nd.momentum = LastValue(attrs, "momentum", MomentumDefault)
              /\ \A f \in DOMAIN nd \ {"epsilon", "momentum", "pc", "err"} :
                     nd[f] = NewNode(<<>>)[f]
              /\ tensors = initial
              /\ dst[n] = <<>>

\* two epsilon records were parsed and the second one's value was kept,
\* momentum left at its default
C7_Witness ==
    \E n \in DOMAIN nodes :
        /\ nodes[n].pc = "parsed"
        /\ Len(protos[n]) = 2
        /\ protos[n][1].name = "epsilon"
        /\ protos[n][2].name = "epsilon"
        /\ protos[n][1].f # protos[n][2].f
        /\ nodes[n].epsilon = protos[n][2].f
        /\ nodes[n].momentum = MomentumDefault

----------------------------------------------------------------------------
\* the fragments that open a loop and those that close one
LoopOpeners == {"for( int32_t b=0; b<", "for( int32_t c=0; c<", "for( uint32_t "}
LoopClosers == {"\t}", "}"}

\* the k-th smallest member of a set of positions
Kth(P, k) == CHOOSE p \in P : Cardinality({q \in P : q < p}) = k - 1

RECURSIVE ElementIndex(_)
\* [b][c], then one index per spatial axis 2 .. rank-1
ElementIndex(rank) ==
    IF rank <= 2 THEN "[b][c]"
    ELSE ElementIndex(rank - 1) \o "[i" \o ToString(rank - 1) \o "]"

\* C9: for an input of rank R >= 2, print emits exactly R loop headers, over
\* b bounded by data_dim[0], over c bounded by data_dim[1], then over one
\* variable per spatial axis i = 2 .. R-1 bounded by data_dim[i], in axis
\* order, and exactly R closing braces; X and output are indexed by [b][c]
\* and then one index per spatial axis in that order; mean, var, scale and
\* bias are indexed by c alone.
C9_LoopNest ==
    \A n \in DOMAIN nodes :
        prints[n] > 0 =>
            LET d    == dst[n]
                dim  == tensors[nodes[n].input].data_dim
                R    == Len(dim)
                open == {p \in DOMAIN d : d[p] \in LoopOpeners}
                xs   == {p \in DOMAIN d : d[p] = " tmp_X = ( X"}
                outs == {p \in DOMAIN d : d[p] = "output"}
            IN  /\ Cardinality(open) = R
                /\ Cardinality({p \in DOMAIN d : d[p] \in LoopClosers}) = R
                /\ d[Kth(open, 1)] = "for( int32_t b=0; b<"
                /\ d[Kth(open, 1) + 1] = ToString(dim[1])
                /\ d[Kth(open, 2)] = "for( int32_t c=0; c<"
                /\ d[Kth(open, 2) + 1] = ToString(dim[2])
                /\ \A k \in 3..R :
                       LET p == Kth(open, k)
                       IN  /\ d[p] = "for( uint32_t "
                           /\ d[p + 1] = "i" \o ToString(k - 1)
                           /\ d[p + 3] = d[p + 1]
                           /\ d[p + 4] = "<"
                           /\ d[p + 5] = ToString(dim[k])
                /\ Cardinality(xs) = 1
                /\ Cardinality(outs) = 1
                /\ \A p \in xs :
                       /\ d[p + 1] = ElementIndex(R)
                       /\ d[p + 2] = " - mean[c] ) / "
                       /\ d[p + 3] \in {"( var[c] );", "( sqrt( var[c] + epsilon));"}
                       /\ \A q \in open : q < p
                /\ \A p \in outs :
                       /\ d[p + 1] = ElementIndex(R)
                       /\ d[p + 2] = " = tmp_X "
                       /\ \A q \in (p + 3)..Len(d) :
                              d[q] \in {"* scale[c]", " + bias[c]", ";", endl, "\t"}
                                       \cup LoopClosers

\* a node with an input of shape [2,1,2,1] has printed its four loops
C9_Witness ==
    \E n \in DOMAIN nodes :
        /\ prints[n] > 0
        /\ tensors[nodes[n].input].data_dim = <<2, 1, 2, 1>>
        /\ Has(dst[n], "[b][c][i2][i3]")
        /\ Has(dst[n], "i3")

----------------------------------------------------------------------------
\* the epsilon of the k-th node to resolve
EpsilonOf(k) == nodes[resolved[k]].epsilon

\* after two nodes that share a constant variance tensor have resolved, the
\* buffer is folded twice and both nodes divide by var[c]
C10_FoldedTwice ==
    \A i \in 1..2 :
        /\ Len(resolved) = 2
        /\ nodes[resolved[i]].var = nodes[resolved[3 - i]].var
        /\ initial[nodes[resolved[1]].var].isConst
        => LET t == nodes[resolved[1]].var
           IN  /\ \A e \in DOMAIN initial[t].data_buffer :
                      tensors[t].data_buffer[e] =
                          SqrtF(SqrtF(initial[t].data_buffer[e] + EpsilonOf(1)) + EpsilonOf(2))
               /\ nodes[resolved[i]].sqrt_var_offline
               /\ prints[resolved[i]] > 0 =>
                      /\ Has(dst[resolved[i]], "( var[c] );")
                      /\ ~Has(dst[resolved[i]], "float epsilon = ")

\* a print() step changes neither node nor tensor and repeats its text
C10_PrintIsPure ==
    \A n \in DOMAIN nodes :
        prints'[n] # prints[n] =>
            /\ nodes' = nodes
            /\ tensors' = tensors
            /\ prints[n] > 0 => dst'[n] = dst[n]

\* C10: when two nodes consume the same constant variance tensor, each
\* resolve() folds its buffer again: after both, every element holds
\* sqrt(sqrt(v + eps1) + eps2), eps1 and eps2 the epsilons of the first and
\* the second node to resolve, both nodes have sqrt_var_offline set, and
\* the code of the first divides by var[c], the value folded twice.  A
\* print() changes neither node nor tensor, and prints again the text it
\* printed before.
C10_Aliasing == [](C10_FoldedTwice) /\ [][C10_PrintIsPure]_vars

\* both nodes have resolved on a shared constant variance, the first has
\* printed twice, and the buffer holds neither node's sqrt(v + epsilon)
C10_Witness ==
    /\ Len(resolved) = 2
    /\ nodes[1].var = nodes[2].var
    /\ initial[nodes[1].var].isConst
    /\ prints[resolved[1]] = 2
    /\ \A n \in DOMAIN nodes : \E e \in DOMAIN initial[nodes[n].var].data_buffer :
           tensors[nodes[n].var].data_buffer[e] #
               SqrtF(initial[nodes[n].var].data_buffer[e] + nodes[n].epsilon)

====
